---- MODULE Spec2Model ----
(***************************************************************************)
(* A model of oscars.py: the budget-text parser (parse_budget,             *)
(* parse_number), the budget formatter (format_budget), the year and       *)
(* budget locators (get_year, get_budget) and the report loop (main).      *)
(*                                                                         *)
(* Python strings are sequences of one-character strings.  A Python float  *)
(* is the exact decimal  m / 10^k  it was written as (record "float",      *)
(* normalised so that m has no trailing zero while k > 0); the binary      *)
(* rounding error of an IEEE double is not modelled.  None and a raised    *)
(* exception are records of their own kind.                                *)
(***************************************************************************)
EXTENDS Integers, Sequences, FiniteSets, TLC

VARIABLES
    fn,       \* the part of the program that is running: "parser", "year", "page" or "main"
    text,     \* parser: the argument of parse_budget / parse_number
    shape,    \* parser: how text was put together (the number it spells, its surroundings)
    ret,      \* parser: what parse_budget(text) returned or raised
    num,      \* parser: what parse_number(text) returned or raised
    field,    \* parser, page: what format_budget printed for the budget
    big,      \* year: the text fragments of a <big> year marker
    year,     \* year: what get_year(big) returned
    page,     \* page: a detail page, the sequence of its table rows
    cell,     \* page: what get_budget(page) returned or raised
    bigs,     \* main: the year markers of the index page, in page order
    site,     \* main: the detail page behind each marker's link
    pc,       \* main: the position of main
    i,        \* main: the number of markers whose loop iteration has begun
    count,    \* main: count
    total,    \* main: total
    out,      \* main: the lines printed to `out`
    fetched,  \* main: the paths fetched so far, in order
    exc       \* main: the exception that ended main, if any

vars == <<fn, text, shape, ret, num, field, big, year, page, cell,
          bigs, site, pc, i, count, total, out, fetched, exc>>

parserVars == <<text, shape, ret, num>>
yearVars   == <<big, year>>
pageVars   == <<page, cell>>
mainVars   == <<bigs, site, pc, i, count, total, out, fetched, exc>>

\* ------------------------------------------------------------------ bounds
MaxTokLen  == 3     \* longest raw token handed to parse_number
MaxRows    == 2     \* most table rows on a modelled detail page
MaxWinners == 3     \* most year markers on a modelled index page

\* ------------------------------------------------------- program constants
Million    == 1000000
Width      == 14
YearWidth  == 8
TitleWidth == 50

\* ------------------------------------------------------------ Python values
None        == [kind |-> "None"]
NotCalled   == [kind |-> "not called"]
Raise(e)    == [kind |-> "raise", exc |-> e]
Str(s)      == [kind |-> "str", s |-> s]

Pow10(k)    == IF k = 0 THEN 1 ELSE
               IF k = 1 THEN 10 ELSE
               IF k = 2 THEN 100 ELSE
               IF k = 3 THEN 1000 ELSE
               IF k = 4 THEN 10000 ELSE
               IF k = 5 THEN 100000 ELSE
               IF k = 6 THEN 1000000 ELSE
               IF k = 7 THEN 10000000 ELSE
               IF k = 8 THEN 100000000 ELSE 1000000000

RECURSIVE Normal(_, _)
Normal(m, k) == IF k > 0 /\ m % 10 = 0 THEN Normal(m \div 10, k - 1)
                ELSE [kind |-> "float", m |-> m, k |-> k]

\* the float  m / 10^k
Float(m, k) == Normal(m, k)

IsFloat(v)  == v.kind = "float"
IsRaise(v)  == v.kind = "raise"

\* truth value of a float or None, as `if budget` takes it
Truthy(v)   == IsFloat(v) /\ v.m # 0

\* a * n for a float a and a natural n (tens are cancelled against the
\* decimal places first, so that the product of the mantissas stays small)
RECURSIVE FloatMul(_, _)
FloatMul(a, n) == IF a.k > 0 /\ n % 10 = 0
                  THEN FloatMul([a EXCEPT !.k = a.k - 1], n \div 10)
                  ELSE Float(a.m * n, a.k)

\* a + b for floats
FloatAdd(a, b) == LET k == IF a.k > b.k THEN a.k ELSE b.k
                  IN  Float(a.m * Pow10(k - a.k) + b.m * Pow10(k - b.k), k)

\* round(n / d) for naturals n, d > 0: to the nearest integer, ties to even
RoundDiv(n, d) == LET q == n \div d
                      r == n % d
                  IN  IF 2 * r < d THEN q
                      ELSE IF 2 * r > d THEN q + 1
                      ELSE IF q % 2 = 0 THEN q ELSE q + 1

\* round(x) for a float x
round(x) == RoundDiv(x.m, Pow10(x.k))

\* ------------------------------------------------------------------ strings
Digits10 == <<"0", "1", "2", "3", "4", "5", "6", "7", "8", "9">>
DigitChars == {Digits10[d] : d \in 1..10}
IsDigit(c) == c \in DigitChars
DigitVal(c) == (CHOOSE d \in 1..10 : Digits10[d] = c) - 1
\* str.split() whitespace; the space is the only whitespace of the modelled texts
IsSpace(c) == c = " "

RECURSIVE Flatten(_)
Flatten(ss) == IF ss = <<>> THEN <<>> ELSE Head(ss) \o Flatten(Tail(ss))

\* sep.join(ss)
RECURSIVE Join(_, _)
Join(sep, ss) == IF ss = <<>> THEN <<>>
                 ELSE IF Len(ss) = 1 THEN ss[1]
                 ELSE ss[1] \o sep \o Join(sep, Tail(ss))

\* str(n) for a natural n
RECURSIVE IntToStr(_)
IntToStr(n) == IF n < 10 THEN <<Digits10[n + 1]>>
               ELSE IntToStr(n \div 10) \o <<Digits10[(n % 10) + 1]>>

\* '{:,}'.format(n) applied to the digits of n: a comma before every group of
\* three digits counted from the right
RECURSIVE Commas(_)
Commas(ds) == IF Len(ds) <= 3 THEN ds
              ELSE Commas(SubSeq(ds, 1, Len(ds) - 3)) \o <<",">>
                   \o SubSeq(ds, Len(ds) - 2, Len(ds))

Commify(n) == Commas(IntToStr(n))

Spaces(n) == [j \in 1..n |-> " "]

\* '{:>w}'.format(s): pads on the left, never truncates
PadLeft(s, w)  == IF Len(s) >= w THEN s ELSE Spaces(w - Len(s)) \o s
\* '{:w}'.format(s) for a str: pads on the right, never truncates
PadRight(s, w) == IF Len(s) >= w THEN s ELSE s \o Spaces(w - Len(s))

\* s.find(c) without its -1: a missing c is reported at index 0
Find_NoSentinel(s, c) ==
    IF \E j \in 1..Len(s) : s[j] = c
    THEN (CHOOSE j \in 1..Len(s) : s[j] = c /\ \A h \in 1..(j - 1) : s[h] # c) - 1
    ELSE 0

\* s.find(c): the 0-based index of the first c in s, or -1
Find(s, c) == IF \E j \in 1..Len(s) : s[j] = c
              THEN (CHOOSE j \in 1..Len(s) :
                        s[j] = c /\ \A h \in 1..(j - 1) : s[h] # c) - 1
              ELSE -1

\* s.split(): the maximal runs of non-whitespace characters, in order
RECURSIVE Split(_)
Split(s) ==
    IF s = <<>> THEN <<>>
    ELSE IF IsSpace(s[1]) THEN Split(Tail(s))
    ELSE LET stops == {j \in 1..Len(s) : IsSpace(s[j])}
             end   == IF stops = {} THEN Len(s) + 1
                      ELSE CHOOSE j \in stops : \A h \in stops : j <= h
         IN  <<SubSeq(s, 1, end - 1)>> \o Split(SubSeq(s, end, Len(s)))

\* s.startswith(p)
StartsWith(s, p) == Len(s) >= Len(p) /\ SubSeq(s, 1, Len(p)) = p

\* sub in s
Contains(s, sub) == \E j \in 0..(Len(s) - Len(sub)) :
                        SubSeq(s, j + 1, j + Len(sub)) = sub

\* the natural number spelled by a sequence of digit characters ("" is 0)
RECURSIVE DigitsToNat(_)
DigitsToNat(ds) == IF ds = <<>> THEN 0
                   ELSE 10 * DigitsToNat(SubSeq(ds, 1, Len(ds) - 1))
                        + DigitVal(ds[Len(ds)])

\* float(s) for a string s of digits and '.' only: ValueError unless s has a
\* digit and at most one '.'
float(s) ==
    LET dots == {j \in 1..Len(s) : s[j] = "."}
    IN  IF Cardinality(dots) > 1 \/ Cardinality(dots) = Len(s)
        THEN Raise("ValueError")
        ELSE IF dots = {} THEN Float(DigitsToNat(s), 0)
        ELSE LET d == CHOOSE j \in dots : TRUE
                 whole == SubSeq(s, 1, d - 1)
                 frac  == SubSeq(s, d + 1, Len(s))
             IN  Float(DigitsToNat(whole \o frac), Len(frac))

\* --------------------------------------------------------------- the parser
\* the filter with the '.' left out of the kept characters
KeepNumberChar_DigitsOnly(c) == IsDigit(c)

KeepNumberChar(c) == IsDigit(c) \/ c = "."

parse_number(t) == float(SelectSeq(t, KeepNumberChar))

MillionWord == <<"m", "i", "l", "l", "i", "o", "n">>

parse_budget(t) ==
    LET at == Find(t, "$")
    IN  IF at = -1 THEN None
        ELSE LET parts == Split(SubSeq(t, at + 2, Len(t)))
             IN  IF parts = <<>> THEN Raise("IndexError")
                 ELSE LET value == parse_number(parts[1])
                      IN  IF IsRaise(value) THEN value
                          ELSE IF Len(parts) > 1 /\ StartsWith(parts[2], MillionWord)
                               THEN FloatMul(value, Million)
                               ELSE value

\* ------------------------------------------------------------ the formatter
Prefix == <<"$", " ">>

format_budget(budget) ==
    LET thin == IF Truthy(budget) THEN Commify(round(budget)) ELSE <<"-">>
    IN  Prefix \o PadLeft(thin, Width - Len(Prefix))

\* --------------------------------------------------------- the year locator
\* A <big> year marker is the sequence of its text fragments
\* (big.find_all(text=True)).

\* get_year that joins every fragment of a two-year marker
get_year_JoinAll(texts) ==
    IF texts = <<>> THEN Raise("IndexError")
    ELSE IF Len(texts) > 1 /\ texts[2] = <<"/">>
         THEN Str(Flatten(texts))
         ELSE Str(texts[1])

get_year(texts) ==
    LET multi == Len(texts) > 1 /\ texts[2] = <<"/">>
    IN  IF multi
        THEN Str(Flatten(SubSeq(texts, 1, IF Len(texts) < 3 THEN Len(texts) ELSE 3)))
        ELSE IF texts = <<>> THEN Raise("IndexError")
             ELSE Str(texts[1])

\* ------------------------------------------------------- the budget locator
\* A detail page is the sequence of its table rows.  A row has at most one
\* header cell, th (the sequence of its text fragments), and a sequence of
\* data cells, tds (each the sequence of its text fragments).

BudgetWord == <<"B", "u", "d", "g", "e", "t">>

\* th.find(text=True) or ''
FirstText(th) == IF th.texts = <<>> THEN <<>> ELSE th.texts[1]

\* the header test applied to the whole label text instead of its first fragment
HasBudgetLabel_WholeLabel(row) ==
    row.th.present /\ Contains(Flatten(row.th.texts), BudgetWord)

HasBudgetLabel(row) == row.th.present /\ Contains(FirstText(row.th), BudgetWord)

get_budget(pg) ==
    LET ths == SelectSeq(pg, HasBudgetLabel)
    IN  IF ths = <<>> THEN Str(<<>>)
        ELSE IF ths[1].tds = <<>> THEN Raise("AttributeError")
             ELSE Str(Join(<<" ">>, ths[1].tds[1]))

\* ---------------------------------------------------------- the report loop
\* parse_big(big): the year, the title and the link of a marker.  The index
\* page hands each marker over as the record of its text fragments, the title
\* in the first data cell of its table and the link in that cell.
parse_big(b) == [year |-> get_year(b.texts), title |-> b.title, link |-> b.link]

IndexPath == <<"/", "w", "i", "k", "i", "/", "A", "w", "a", "r", "d">>

\* print('{:8} {:50} {}'.format(year, title, format_budget(budget)))
RowLine(yr, title, budget) ==
    PadRight(yr, YearWidth) \o <<" ">> \o PadRight(title, TitleWidth)
    \o <<" ">> \o format_budget(budget)

Separator == <<"-", "-", "-", "-">>

\* 'Average: $ {:,.0f}'.format(total / count), for count > 0
AverageLine(tot, cnt) ==
    <<"A", "v", "e", "r", "a", "g", "e", ":", " ", "$", " ">>
    \o Commify(RoundDiv(tot.m, cnt * Pow10(tot.k)))

\* the markers taken last to first
Marker_Reversed(j) == bigs[Len(bigs) + 1 - j]

\* the j-th marker of `for big in bigs`
Marker(j) == bigs[j]

\* fetch(base, link): the detail page behind a link
DetailPage(link) ==
    site.pages[CHOOSE j \in 1..Len(site.index) : site.index[j].link = link]

\* the budget of the marker main is at: parse_budget(get_budget(page)),
\* or the exception that either call raises
CurrentBudget ==
    LET txt == get_budget(DetailPage(parse_big(Marker(i)).link))
    IN  IF IsRaise(txt) THEN txt ELSE parse_budget(txt.s)

\* ------------------------------------------------------ values not in use
Idle == [kind |-> "idle"]

\* ================================================================ the parser
\* Inputs of parse_budget and parse_number.  A raw text is any string of at
\* most MaxTokLen characters over TokChars.  An amount text spells a number:
\*   pre  '$'  ws  <n, with or without commas> [ '.' frac ] [ ' million' ] trail

TokChars == {"$", " ", "0", "1", ".", ",", "x"}

RawTexts == UNION {[1..n -> TokChars] : n \in 0..MaxTokLen}

NumberSamples == {0, 2, 12, 999, 1000, 1234, 1234567}

\* the decimal part of a number token: absent, a bare '.', or '.' and digits
FracSamples == {[dot |-> FALSE, digits |-> <<>>],
                [dot |-> TRUE,  digits |-> <<>>],
                [dot |-> TRUE,  digits |-> <<"5">>],
                [dot |-> TRUE,  digits |-> <<"2", "5">>]}

\* text before the '$': nothing, prose, prose and a colon
PreSamples == {<<>>, <<"x", " ">>, <<"c", "a", ".", " ", "1", ":">>}

\* whitespace between the '$' and the number
WsSamples == {<<>>, <<" ">>}

\* text after the number, or after the word 'million'
TrailSamples == {<<>>,
                 <<" ", "x">>,
                 <<"x">>,
                 <<" ", "[", "1", "]">>,
                 <<"[", "1", "]">>,
                 <<"s", " ", "x">>,
                 <<" ", "(", "2", ".", "5", ")">>}

\* the token that spells n and frac
NumberToken(n, commas, frac) ==
    (IF commas THEN Commify(n) ELSE IntToStr(n))
    \o (IF frac.dot THEN <<".">> \o frac.digits ELSE <<>>)

AmountText(sh) ==
    sh.pre \o <<"$">> \o sh.ws \o NumberToken(sh.n, sh.commas, sh.frac)
    \o (IF sh.million THEN <<" ">> \o MillionWord ELSE <<>>) \o sh.trail

AmountShapes ==
    {sh \in [kind : {"amount"}, pre : PreSamples, ws : WsSamples,
             n : NumberSamples, commas : BOOLEAN, frac : FracSamples,
             million : BOOLEAN, trail : TrailSamples] :
        sh.million => sh.n <= 1234}

\* fields of the other parts of the program, while the parser runs
IdleYear == big = Idle /\ year = Idle
IdlePage == page = Idle /\ cell = Idle
IdleMain == /\ bigs = Idle /\ site = Idle /\ pc = "idle" /\ i = 0 /\ count = 0
            /\ total = Idle /\ out = <<>> /\ fetched = <<>> /\ exc = Idle
IdleParser == text = Idle /\ shape = Idle /\ ret = Idle /\ num = Idle

InitParser ==
    /\ fn = "parser"
    /\ \/ /\ text \in RawTexts
          /\ shape = [kind |-> "raw"]
       \/ \E sh \in AmountShapes :
             /\ shape = sh
             /\ text = AmountText(sh)
    /\ ret = NotCalled
    /\ num = NotCalled
    /\ field = NotCalled
    /\ IdleYear /\ IdlePage /\ IdleMain

\* ret = parse_budget(text)
CallParseBudget ==
    /\ fn = "parser"
    /\ ret = NotCalled
    /\ ret' = parse_budget(text)
    /\ UNCHANGED <<fn, text, shape, num, field, yearVars, pageVars, mainVars>>

\* num = parse_number(text)
CallParseNumber ==
    /\ fn = "parser"
    /\ num = NotCalled
    /\ num' = parse_number(text)
    /\ UNCHANGED <<fn, text, shape, ret, field, yearVars, pageVars, mainVars>>

\* field = format_budget(ret), for a budget parse_budget returned
CallFormatBudget ==
    /\ fn = "parser"
    /\ ret # NotCalled
    /\ ~IsRaise(ret)
    /\ field = NotCalled
    /\ field' = Str(format_budget(ret))
    /\ UNCHANGED <<fn, parserVars, yearVars, pageVars, mainVars>>

NextParser == CallParseBudget \/ CallParseNumber \/ CallFormatBudget

SpecParser == InitParser /\ [][NextParser]_vars

\* ------------------------------------------------- properties of the parser
NoDollar(t) == \A j \in 1..Len(t) : t[j] # "$"

\* the number an amount text spells: n and its decimal part, times a million
\* when the word follows
ExpectedAmount(sh) ==
    LET places == Len(sh.frac.digits)
        v == Float(sh.n * Pow10(places) + DigitsToNat(sh.frac.digits), places)
    IN  IF sh.million THEN FloatMul(v, Million) ELSE v

\* C1: for every well-formed number token N, with any non-'$' text before the
\* '$', optional whitespace after it and any text trailing after the number or
\* after the word 'million', parse_budget returns the value of N, times
\* 1,000,000 when 'million' follows.
C1_ParseBudgetReadsAmount ==
    (fn = "parser" /\ shape.kind = "amount" /\ ret # NotCalled)
        => ret = ExpectedAmount(shape)

\* C2: for every text without a '$', the empty text included, parse_budget
\* returns None and raises nothing.
C2_NoDollarGivesNone ==
    (fn = "parser" /\ ret # NotCalled /\ NoDollar(text)) => ret = None

C2_Witness ==
    fn = "parser" /\ ret = None /\ NoDollar(text) /\ Len(text) = MaxTokLen

\* the nearest integers to a float: one of them, or two at a tie
Nearest(x) == {r \in {x.m \div Pow10(x.k), (x.m \div Pow10(x.k)) + 1} :
                  LET d == r * Pow10(x.k) - x.m
                  IN  2 * d <= Pow10(x.k) /\ -2 * d <= Pow10(x.k)}

\* C4: format_budget renders every numeric budget parse_budget can return, 0
\* included, as '$ ' and the comma-grouped nearest integer right-aligned in
\* 12 columns, 14 characters in all, and renders only None as '$ ' and a
\* right-aligned '-'.
C4_FormatBudgetRendersEveryNumber ==
    (fn = "parser" /\ field # NotCalled) =>
        /\ Len(field.s) = Width
        /\ IF ret = None
           THEN field.s = <<"$", " ">> \o Spaces(11) \o <<"-">>
           ELSE \E r \in Nearest(ret) :
                   field.s = <<"$", " ">> \o PadLeft(Commify(r), 12)

NumDigits(t) == Cardinality({j \in 1..Len(t) : IsDigit(t[j])})
NumDots(t)   == Cardinality({j \in 1..Len(t) : t[j] = "."})

\* C10, as stated: parse_number fails on no token in which a digit remains,
\* a token with two decimal points included.
C10_OnlyDigitlessTokenFails ==
    (fn = "parser" /\ num # NotCalled /\ NumDigits(text) > 0) => ~IsRaise(num)

\* C10, amended: parse_number raises ValueError exactly when no digit or more
\* than one '.' is left of the token; otherwise it returns the number that
\* the token's digits spell, with as many decimal places as there are digits
\* after its '.'.
C10_ParseNumberKeepsDigitsAndDots ==
    (fn = "parser" /\ num # NotCalled) =>
        IF NumDigits(text) = 0 \/ NumDots(text) > 1
        THEN num = Raise("ValueError")
        ELSE LET dot    == {j \in 1..Len(text) : text[j] = "."}
                 places == Cardinality({j \in 1..Len(text) :
                              IsDigit(text[j]) /\ \E d \in dot : d < j})
             IN  num = Float(DigitsToNat(SelectSeq(text, IsDigit)), places)

C10_Witness ==
    /\ fn = "parser"
    /\ num = Raise("ValueError")
    /\ NumDigits(text) > 0
    /\ NumDots(text) = 2

\* ========================================================= the year locator
YearNumbers == 1927..1935

TwoDigits(n) == IF n < 10 THEN <<"0">> \o IntToStr(n) ELSE IntToStr(n)

\* footnote fragments that may follow the year
NoteSamples == {<<"[", "A", "]">>, <<"[", "B", "]">>, <<"[", "1", "]">>}

\* the markers of the two documented forms, with the footnote or without
MarkerShapes ==
    [kind : {"single"}, y : YearNumbers, yy : {0}, note : NoteSamples \cup {<<>>}]
    \cup [kind : {"double"}, y : YearNumbers, yy : {28, 29, 30},
          note : NoteSamples \cup {<<>>}]

MarkerTexts(sh) ==
    (IF sh.kind = "single" THEN <<IntToStr(sh.y)>>
     ELSE <<IntToStr(sh.y), <<"/">>, TwoDigits(sh.yy)>>)
    \o (IF sh.note = <<>> THEN <<>> ELSE <<sh.note>>)

\* markers of no documented form: no text, a slash and nothing after it,
\* a dash for the slash
OddMarkers == {<<>>,
               <<<<"1", "9", "3", "0">>, <<"/">>>>,
               <<<<"1", "9", "3", "0">>, <<"-">>, <<"3", "1">>>>}

InitYear ==
    /\ fn = "year"
    /\ \/ \E sh \in MarkerShapes : shape = sh /\ big = MarkerTexts(sh)
       \/ shape = [kind |-> "odd"] /\ big \in OddMarkers
    /\ year = NotCalled
    /\ text = Idle /\ ret = Idle /\ num = Idle /\ field = Idle
    /\ IdlePage /\ IdleMain

\* year = get_year(big)
CallGetYear ==
    /\ fn = "year"
    /\ year = NotCalled
    /\ year' = get_year(big)
    /\ UNCHANGED <<fn, text, shape, ret, num, field, big, pageVars, mainVars>>

NextYear == CallGetYear

SpecYear == InitYear /\ [][NextYear]_vars

\* C7: a marker [YYYY] or [YYYY, '/', YY], with a footnote fragment after it
\* or without, gives 'YYYY' or 'YYYY/YY'; the footnote is not in the result.
C7_YearWithoutFootnote ==
    (fn = "year" /\ year # NotCalled /\ shape.kind \in {"single", "double"}) =>
        year = Str(IF shape.kind = "single" THEN IntToStr(shape.y)
                   ELSE IntToStr(shape.y) \o <<"/">> \o TwoDigits(shape.yy))

C7_Witness ==
    /\ fn = "year"
    /\ shape.kind = "double"
    /\ shape.note = <<"[", "A", "]">>
    /\ year = Str(<<"1", "9", "2", "7", "/", "2", "8">>)

\* ======================================================= the budget locator
NoTh == [present |-> FALSE, texts |-> <<>>]
Th(texts) == [present |-> TRUE, texts |-> texts]

\* header cells: 'Budget'; 'Est. Budget' in one fragment; 'Est. ' and
\* 'Budget' in two fragments; 'Cost'; a header without text; a row without
\* a header
ThSamples ==
    {Th(<<BudgetWord>>),
     Th(<<<<"E", "s", "t", ".", " ">> \o BudgetWord>>),
     Th(<<<<"E", "s", "t", ".", " ">>, BudgetWord>>),
     Th(<<<<"C", "o", "s", "t">>>>),
     Th(<<>>),
     NoTh}

\* the data cells of a row: none; '$2 million'; '$3', 'million', '[1]' in
\* three fragments; two cells; one cell without text
TdsSamples ==
    {<<>>,
     << <<<<"$", "2", " ">> \o MillionWord>> >>,
     << <<<<"$", "3">>, MillionWord, <<"[", "1", "]">>>> >>,
     << <<<<"$", "4">>>>, <<<<"$", "9">>>> >>,
     << <<>> >>}

RowSamples == [th : ThSamples, tds : TdsSamples]

Pages == UNION {[1..n -> RowSamples] : n \in 0..MaxRows}

InitPage ==
    /\ fn = "page"
    /\ page \in Pages
    /\ cell = NotCalled
    /\ field = NotCalled
    /\ IdleParser /\ IdleYear /\ IdleMain

\* cell = get_budget(page)
CallGetBudget ==
    /\ fn = "page"
    /\ cell = NotCalled
    /\ cell' = get_budget(page)
    /\ UNCHANGED <<fn, parserVars, field, yearVars, page, mainVars>>

\* field = format_budget(parse_budget(cell)), as main prints it
FormatBudgetOfCell ==
    /\ fn = "page"
    /\ cell # NotCalled
    /\ ~IsRaise(cell)
    /\ field = NotCalled
    /\ field' = LET budget == parse_budget(cell.s)
                IN  IF IsRaise(budget) THEN budget ELSE Str(format_budget(budget))
    /\ UNCHANGED <<fn, parserVars, yearVars, pageVars, mainVars>>

NextPage == CallGetBudget \/ FormatBudgetOfCell

SpecPage == InitPage /\ [][NextPage]_vars

Dash == <<"$", " ">> \o Spaces(11) \o <<"-">>

Least(S) == CHOOSE j \in S : \A h \in S : j <= h

\* C9, as stated: get_budget returns the text of the data cell in the row of
\* the first header cell whose label text contains 'Budget', wherever in the
\* label it occurs, and '' when no header cell does; a page without a budget
\* row gives a '-' field.
C9_FirstHeaderWhoseLabelContainsBudget ==
    (fn = "page" /\ cell # NotCalled) =>
        LET labelled == {j \in 1..Len(page) :
                            /\ page[j].th.present
                            /\ Contains(Flatten(page[j].th.texts), BudgetWord)}
        IN  IF labelled = {}
            THEN cell = Str(<<>>) /\ (field # NotCalled => field = Str(Dash))
            ELSE page[Least(labelled)].tds # <<>> =>
                    cell = Str(Join(<<" ">>, page[Least(labelled)].tds[1]))

\* C9, amended: get_budget looks at the first text fragment of each header
\* cell only.  It returns the text fragments of the first data cell in the row
\* of the first header cell whose first fragment contains 'Budget', joined by
\* single spaces; it raises AttributeError when that row has no data cell; it
\* returns '' when no header cell has such a first fragment, and the page then
\* gives a '-' field.
C9_FirstHeaderWhoseFirstTextContainsBudget ==
    (fn = "page" /\ cell # NotCalled) =>
        LET labelled == {j \in 1..Len(page) :
                            /\ page[j].th.present
                            /\ page[j].th.texts # <<>>
                            /\ Contains(page[j].th.texts[1], BudgetWord)}
        IN  IF labelled = {}
            THEN cell = Str(<<>>) /\ (field # NotCalled => field = Str(Dash))
            ELSE IF page[Least(labelled)].tds = <<>>
                 THEN cell = Raise("AttributeError")
                 ELSE cell = Str(Join(<<" ">>, page[Least(labelled)].tds[1]))

\* a page whose only 'Budget' is in the second fragment of a header: no budget
C9_Witness ==
    /\ fn = "page"
    /\ \E j \in 1..Len(page) :
          /\ page[j].th.present
          /\ Len(page[j].th.texts) = 2
          /\ page[j].th.texts[2] = BudgetWord
          /\ page[j].tds # <<>>
    /\ cell = Str(<<>>)
    /\ field = Str(Dash)

\* =========================================================== the report loop
\* The index page has up to MaxWinners year markers; the first is a two-year
\* marker with a footnote, the others are single years.  Fetches succeed.

IndexMarker(j) ==
    [texts |-> IF j = 1
               THEN <<IntToStr(1927), <<"/">>, TwoDigits(28), <<"[", "A", "]">>>>
               ELSE <<IntToStr(1927 + j)>>,
     title |-> <<"M", "o", "v", "i", "e", " ">> \o IntToStr(j),
     link  |-> <<"/", "w", "i", "k", "i", "/", "M">> \o IntToStr(j)]

\* the year that the j-th marker shows
MarkerYear(j) == IF j = 1 THEN <<"1", "9", "2", "7", "/", "2", "8">>
                 ELSE IntToStr(1927 + j)

BudgetRow(fragments) == [th |-> Th(<<BudgetWord>>), tds |-> <<fragments>>]
OtherRow == [th |-> Th(<<<<"C", "o", "s", "t">>>>), tds |-> << <<<<"$", "9">>>> >>]

\* detail pages: no budget row; '$2 million'; '$1.5 million [1]'; '$1,250.5';
\* '$0'; 'unknown'; '$'; '$ TBD' with nothing numeric after the '$'
PageSamples ==
    {<<OtherRow>>,
     <<OtherRow, BudgetRow(<<<<"$", "2", " ">> \o MillionWord>>)>>,
     <<BudgetRow(<<<<"$", "1", ".", "5">>, MillionWord, <<"[", "1", "]">>>>)>>,
     <<BudgetRow(<<<<"$", "1", ",", "2", "5", "0", ".", "5">>>>)>>,
     <<BudgetRow(<<<<"$", "0">>>>)>>,
     <<BudgetRow(<<<<"u", "n", "k", "n", "o", "w", "n">>>>)>>,
     <<BudgetRow(<<<<"$">>>>)>>,
     <<BudgetRow(<<<<"$">>, <<"T", "B", "D">>>>)>>}

Sites == UNION {[index : {[j \in 1..n |-> IndexMarker(j)]},
                 pages : [1..n -> PageSamples]] : n \in 0..MaxWinners}

Init ==
    /\ fn = "main"
    /\ site \in Sites
    /\ bigs = <<>>
    /\ pc = "start"
    /\ i = 0
    /\ count = 0
    /\ total = Float(0, 0)
    /\ out = <<>>
    /\ fetched = <<>>
    /\ exc = None
    /\ field = Idle
    /\ IdleParser /\ IdleYear /\ IdlePage

\* soup = fetch(base, path); bigs = soup.find_all('big'); count = 0; total = 0
FetchIndex ==
    /\ pc = "start"
    /\ fetched' = Append(fetched, IndexPath)
    /\ bigs' = site.index
    /\ count' = 0
    /\ total' = Float(0, 0)
    /\ pc' = "loop"
    /\ UNCHANGED <<fn, parserVars, field, yearVars, pageVars, site, i, out, exc>>

\* the next marker: year, title, link = parse_big(big); page = fetch(base, link)
FetchDetail ==
    /\ pc = "loop"
    /\ i < Len(bigs)
    /\ i' = i + 1
    /\ fetched' = Append(fetched, parse_big(Marker(i + 1)).link)
    /\ pc' = "row"
    /\ UNCHANGED <<fn, parserVars, field, yearVars, pageVars,
                   bigs, site, count, total, out, exc>>

\* budget = parse_budget(get_budget(page)); count and total; the row is printed
PrintRow ==
    /\ pc = "row"
    /\ ~IsRaise(CurrentBudget)
    /\ LET budget == CurrentBudget
           winner == parse_big(Marker(i))
       IN  /\ IF Truthy(budget)
              THEN count' = count + 1 /\ total' = FloatAdd(total, budget)
              ELSE UNCHANGED <<count, total>>
           /\ out' = Append(out, RowLine(winner.year.s, winner.title, budget))
    /\ pc' = "loop"
    /\ UNCHANGED <<fn, parserVars, field, yearVars, pageVars,
                   bigs, site, i, fetched, exc>>

\* get_budget or parse_budget raises: main ends with the exception
RowRaises ==
    /\ pc = "row"
    /\ IsRaise(CurrentBudget)
    /\ exc' = CurrentBudget
    /\ pc' = "failed"
    /\ UNCHANGED <<fn, parserVars, field, yearVars, pageVars,
                   bigs, site, i, count, total, out, fetched>>

\* after the loop: print('----\nAverage: $ {:,.0f}'.format(total / count))
PrintAverage ==
    /\ pc = "loop"
    /\ i = Len(bigs)
    /\ count # 0
    /\ out' = out \o <<Separator, AverageLine(total, count)>>
    /\ pc' = "done"
    /\ UNCHANGED <<fn, parserVars, field, yearVars, pageVars,
                   bigs, site, i, count, total, fetched, exc>>

\* after the loop with count = 0: total / count raises, nothing is printed
AverageRaises ==
    /\ pc = "loop"
    /\ i = Len(bigs)
    /\ count = 0
    /\ exc' = Raise("ZeroDivisionError")
    /\ pc' = "failed"
    /\ UNCHANGED <<fn, parserVars, field, yearVars, pageVars,
                   bigs, site, i, count, total, out, fetched>>

Next == \/ FetchIndex
        \/ FetchDetail
        \/ PrintRow
        \/ RowRaises
        \/ PrintAverage
        \/ AverageRaises

Spec == Init /\ [][Next]_vars

\* -------------------------------------------- properties of the report loop
\* the winner rows printed so far (the two closing lines are not rows)
Rows == IF pc = "done" THEN SubSeq(out, 1, Len(out) - 2) ELSE out

\* what the budget text of the j-th winner's page parses to
ParsedBudget(j) ==
    LET txt == get_budget(site.pages[j])
    IN  IF IsRaise(txt) THEN txt ELSE parse_budget(txt.s)

\* a budget text that is present but has no '$', or no digit in the token
\* after its first '$', or nothing but whitespace after it
PresentButUnparseable(t) ==
    /\ t # <<>>
    /\ \/ NoDollar(t)
       \/ LET first == Least({j \in 1..Len(t) : t[j] = "$"})
              toks  == Split(SubSeq(t, first + 1, Len(t)))
          IN  toks = <<>> \/ NumDigits(toks[1]) = 0

\* the budget field of a printed row
BudgetField(line) == SubSeq(line, Len(line) - Width + 1, Len(line))

\* C3: when the budget text of the winner at hand is present but unparseable,
\* the step that handles it prints the winner's row with a '-' budget, leaves
\* count and total alone and goes on to the next winner.
C3_UnparseableBudgetIsAbsent ==
    [][(/\ fn = "main"
        /\ pc = "row"
        /\ ~IsRaise(get_budget(site.pages[i]))
        /\ PresentButUnparseable(get_budget(site.pages[i]).s))
       => /\ pc' = "loop"
          /\ count' = count
          /\ total' = total
          /\ Len(out') = Len(out) + 1
          /\ BudgetField(out'[Len(out')]) = Dash]_vars

\* the sum of the budgets that the first n winners' texts parse to
RECURSIVE SumParsed(_)
SumParsed(n) ==
    IF n = 0 THEN Float(0, 0)
    ELSE IF IsFloat(ParsedBudget(n))
         THEN FloatAdd(SumParsed(n - 1), ParsedBudget(n))
         ELSE SumParsed(n - 1)

\* C5: after any prefix of the winners, count is the number of them whose
\* budget text parse_budget turned into a number (a 0 included) and total is
\* the sum of those numbers; the average printed last is total / count.
C5_CountAndTotalOfParsedBudgets ==
    (fn = "main" /\ pc # "start") =>
        LET n      == Len(Rows)
            parsed == {j \in 1..n : IsFloat(ParsedBudget(j))}
        IN  /\ count = Cardinality(parsed)
            /\ total = SumParsed(n)
            /\ pc = "done" =>
                  out[Len(out)] = AverageLine(SumParsed(n), Cardinality(parsed))

\* C6: if no winner yields a parsed budget (an index page without markers
\* included), main ends in a division error at the average, with every
\* winner's row written and neither the separator nor an average line.
C6_NoParsedBudgetEndsInDivisionError ==
    (/\ fn = "main"
     /\ pc \in {"done", "failed"}
     /\ \A j \in 1..Len(site.index) : ~IsFloat(ParsedBudget(j)))
    => /\ pc = "failed"
       /\ exc = Raise("ZeroDivisionError")
       /\ Len(out) = Len(site.index)
       /\ \A j \in 1..Len(out) : out[j] # Separator

\* the first 60 columns of the row of the j-th marker: year and title
RowHead(j) ==
    PadRight(MarkerYear(j), YearWidth) \o <<" ">>
    \o PadRight(site.index[j].title, TitleWidth) \o <<" ">>

\* C8: at every point of a run the rows written are one row per marker done
\* with, in page order: the j-th row is the j-th marker's, the detail pages
\* were fetched in page order, the page of a marker is fetched only after the
\* rows of all markers before it are written, and a run that completes has
\* written one row per marker and then the separator and the average.
C8_RowsFollowMarkers ==
    (fn = "main" /\ pc # "start") =>
        /\ Len(Rows) = IF pc = "row" \/ (pc = "failed" /\ exc # Raise("ZeroDivisionError"))
                       THEN i - 1 ELSE i
        /\ \A j \in 1..Len(Rows) :
              SubSeq(Rows[j], 1, YearWidth + TitleWidth + 2) = RowHead(j)
        /\ fetched = <<IndexPath>> \o [j \in 1..i |-> site.index[j].link]
        /\ Len(fetched) - 1 <= Len(Rows) + 1
        /\ pc = "done" =>
              /\ Len(Rows) = Len(site.index)
              /\ out[Len(out) - 1] = Separator
              /\ StartsWith(out[Len(out)],
                            <<"A", "v", "e", "r", "a", "g", "e", ":", " ", "$", " ">>)

C8_Witness ==
    /\ fn = "main"
    /\ pc = "done"
    /\ Len(site.index) >= 2
    /\ Len(out) = Len(site.index) + 2

====
